---- MODULE Spec2Model ----
(***************************************************************************)
(* HostHunter (wolf.go): the start-up of main() (arguments, host file,    *)
(* scan speed prompt) and its bounded worker-pool pipeline.                *)
(*                                                                         *)
(*   feeder goroutine  --domains chan-->  N workers  --results chan-->     *)
(*   processResults (main goroutine);  closer goroutine = wg.Wait + close  *)
(*                                                                         *)
(* Strings are TLA+ strings, so HasPrefix/TrimPrefix/concatenation are     *)
(* computed character by character as the Go functions compute them.      *)
(* Result.Duration and startTime (wall-clock readings) are not modelled.   *)
(***************************************************************************)
EXTENDS Integers, Sequences, FiniteSets

(* ------------------------------ bounds -------------------------------- *)

\* Largest number of domains read from the host file.
MaxDomains == 2

\* Largest "scan speed" the operator enters.
MaxWorkers == 2

\* Capacity of both channels.  wolf.go sets bufferSize = 100; it is scaled
\* down here so that both channels fill up with MaxDomains domains.
bufferSize == 1

\* Rejected scan speeds after which the prompt loop is no longer followed
\* (on an exhausted standard input the loop of lines 192-202 never ends).
MaxPrompts == 4

(* ------------------------------ inputs -------------------------------- *)

\* A host file: a bare hostname listed twice, an https:// URL, an http://
\* URL and a bare hostname whose own name begins with the letters "http".
HostFile == <<"a.io", "a.io", "https://b.io", "http://c.io", "httpd.io">>

\* The domain lists main() can end up with: the non-empty runs of
\* consecutive lines of HostFile, at most MaxDomains long.
DomainLists ==
    { SubSeq(HostFile, r[1], r[2]) :
        r \in { p \in (1..Len(HostFile)) \X (1..Len(HostFile)) :
                   p[1] <= p[2] /\ p[2] - p[1] < MaxDomains } }

\* Status codes a response can carry: both sides of each end of the
\* acceptance window of checkDomain.
StatusCodes == {0, 1, 500, 501}

\* The three-domain run of the test scenario: one worker, and a network
\* scripted to answer 200, a connection error and 501.
ScenarioList == <<"good.example", "bad.example", "weird.example">>

NoError == "nil"
TransportError == "transport error"
SchemeError == "unsupported protocol scheme"

ScenarioNetwork ==
    {[url |-> "https://good.example", resp |-> [err |-> NoError, code |-> 200]],
     [url |-> "https://bad.example",
      resp |-> [err |-> TransportError, code |-> 0]],
     [url |-> "https://weird.example",
      resp |-> [err |-> NoError, code |-> 501]]}

\* The scenario's domains listed twice: more domains than two full
\* channels and one worker can hold.
BacklogList == ScenarioList \o ScenarioList

\* The runs of the pipeline: every domain list with a single worker and
\* with the largest pool on an unscripted network, the scenario, and the
\* backlog with one worker.
Runs ==
    {[list |-> l, speed |-> n, network |-> {}] :
        l \in DomainLists, n \in {1, MaxWorkers}}
    \cup {[list |-> l, speed |-> 1, network |-> ScenarioNetwork] :
            l \in {ScenarioList, BacklogList}}

\* Command lines: without and with the host file argument.
ArgLists == {<<"wolf">>, <<"wolf", "hosts.txt">>}

\* Host files: one that cannot be opened, an empty one, one of blank and
\* white-space lines only, and two with domains among blank lines.
HostFiles ==
    {[exists |-> FALSE, lines |-> <<>>],
     [exists |-> TRUE, lines |-> <<>>],
     [exists |-> TRUE, lines |-> <<"", " \t", "\r">>],
     [exists |-> TRUE, lines |-> <<"  good.example ", "", "\tweird.example">>],
     [exists |-> TRUE, lines |-> <<"bad.example\r">>]}

\* What the operator types at the scan speed prompt: the characters of
\* standard input, each line ended by a newline.
SpeedInputs ==
    {"-3\nabc\n5\n", "0\n+2\n7\n", "1\n", "\n2x\n03\n", "-\nx1\n", "",
     "abc 5\n2\n", "5 abc\n"}

(* ------------------------------- state -------------------------------- *)

VARIABLES
    domainsList,        \* main: the domains read from the file
    numWorkers,         \* main: the accepted scan speed
    successfulDomains,  \* StatusChecker.successfulDomains
    processedDomains,   \* StatusChecker.processedDomains
    totalDomains,       \* StatusChecker.totalDomains
    mu,                 \* StatusChecker.mu: Unlocked or the task holding it
    domains,            \* buffer of the work channel
    domainsClosed,      \* close(domains) has run
    results,            \* buffer of the result channel
    resultsClosed,      \* close(results) has run
    wg,                 \* sync.WaitGroup counter
    mainPc,             \* position of the main goroutine
    started,            \* main: loop variable i of the worker start loop
    result,             \* processResults: loop variable result
    percentage,         \* processResults: local percentage (tenths)
    feederPc,           \* position of the feeder goroutine
    fed,                \* feeder: number of domains already sent
    closerPc,           \* position of the closer goroutine
    worker,             \* per worker: pc and the locals of worker/checkDomain
    output,             \* the result lines printed so far
    summary,            \* the summary block, once printed
    sent,               \* the domains sent on the work channel, in order
    pickups,            \* per input position: times a worker received it
    attempts,           \* per input position: the URLs of the GETs issued
    deliveries,         \* per input position: the Results main received
    closes,             \* number of close() calls per channel
    env                 \* outside the program: arguments, host file,
                        \* standard input, prompts shown, network, exit

vars == <<domainsList, numWorkers, successfulDomains, processedDomains,
          totalDomains, mu, domains, domainsClosed, results, resultsClosed,
          wg, mainPc, started, result, percentage, feederPc, fed, closerPc,
          worker, output, summary, sent, pickups, attempts, deliveries,
          closes, env>>

(* --------------------------- pure functions --------------------------- *)

\* strings.HasPrefix
HasPrefix(s, prefix) ==
    /\ Len(s) >= Len(prefix)
    /\ SubSeq(s, 1, Len(prefix)) = prefix

\* A TrimPrefix that removes nothing.
TrimPrefixNothing(s, prefix) == s

\* strings.TrimPrefix
TrimPrefix(s, prefix) ==
    IF HasPrefix(s, prefix) THEN SubSeq(s, Len(prefix) + 1, Len(s)) ELSE s

\* checkDomain, lines 93-95: the URL handed to client.Get
Normalize(domain) ==
    IF ~HasPrefix(domain, "http") THEN "https://" \o domain ELSE domain

\* A window that leaves the upper bound out.
IsSuccessfulBelow500(code) == code >= 1 /\ code < 500

\* checkDomain, line 108: the acceptance window
IsSuccessful(code) == code >= 1 /\ code <= 500

\* What client.Get can return for a URL: net/http refuses a URL that has no
\* http:// or https:// scheme without contacting anything; a URL the
\* network is scripted for gets the scripted answer; every other request
\* either fails in transport or yields a response with a status.
Get(url) ==
    IF ~(HasPrefix(url, "http://") \/ HasPrefix(url, "https://"))
    THEN {[err |-> SchemeError, code |-> 0]}
    ELSE IF \E a \in env.network : a.url = url
    THEN {a.resp : a \in {b \in env.network : b.url = url}}
    ELSE {[err |-> TransportError, code |-> 0]}
         \cup {[err |-> NoError, code |-> c] : c \in StatusCodes}

\* The quotient taken the wrong way round.
PercentageInverted(processed, total) == (total * 1000) \div processed

\* processResults, line 135 as rendered by %6.1f: the percentage in tenths
\* of a percent, rounded to nearest (ties to even).
Percentage(processed, total) ==
    LET q == (processed * 1000) \div total
        r == (processed * 1000) % total
    IN  IF 2 * r > total \/ (2 * r = total /\ q % 2 = 1) THEN q + 1 ELSE q

\* A channel without a capacity.
CanSendAlways(ch) == TRUE

\* Buffered channel: a send can proceed while the buffer has room.
CanSend(ch) == Len(ch) < bufferSize

\* Buffered channel: a receive can proceed while the buffer holds a value.
CanRecv(ch) == ch # <<>>

\* Buffered channel receive: the value delivered and what stays buffered.
Received(ch) == Head(ch)
AfterRecv(ch) == Tail(ch)

\* A loop that gives up as soon as the buffer is empty.
RangeEndsWhenEmpty(ch, closed) == ch = <<>>

\* "for v := range ch" ends when ch is closed and drained.
RangeEnds(ch, closed) == closed /\ ch = <<>>

\* unicode.IsSpace on the characters met here.
IsSpace(c) == c \in {" ", "\t", "\r"}

\* strings.TrimSpace (line 174): s without leading and trailing white space.
TrimSpace(s) ==
    LET keep == {i \in 1..Len(s) : ~IsSpace(SubSeq(s, i, i))}
    IN  IF keep = {} THEN ""
        ELSE SubSeq(s, CHOOSE i \in keep : \A j \in keep : i <= j,
                       CHOOSE i \in keep : \A j \in keep : j <= i)

\* The decimal digit for n in 0..9 (strconv.Itoa for one digit).
Digit(n) == SubSeq("0123456789", n + 1, n + 1)

IsDigit(c) == \E n \in 0..9 : c = Digit(n)

DigitValue(c) == CHOOSE n \in 0..9 : c = Digit(n)

RECURSIVE Decimal(_)
\* The value of a string of decimal digits.
Decimal(d) ==
    IF d = "" THEN 0
    ELSE 10 * Decimal(SubSeq(d, 1, Len(d) - 1))
         + DigitValue(SubSeq(d, Len(d), Len(d)))

\* strconv.Atoi (line 196): an optional sign, then one or more decimal
\* digits and nothing else; anything else is a syntax error with value 0.
Atoi(s) ==
    LET signed == HasPrefix(s, "+") \/ HasPrefix(s, "-")
        d == IF signed THEN SubSeq(s, 2, Len(s)) ELSE s
    IN  IF d = "" \/ \E i \in 1..Len(d) : ~IsDigit(SubSeq(d, i, i))
        THEN [err |-> TRUE, val |-> 0]
        ELSE [err |-> FALSE,
              val |-> IF HasPrefix(s, "-") THEN 0 - Decimal(d)
                      ELSE Decimal(d)]

RECURSIVE SkipBlanks(_, _)
\* The first position of s from i on that holds no blank other than a
\* newline; Len(s) + 1 when there is none.
SkipBlanks(s, i) ==
    IF i <= Len(s) /\ SubSeq(s, i, i) \in {" ", "\t", "\r"}
    THEN SkipBlanks(s, i + 1)
    ELSE i

RECURSIVE TokenEnd(_, _)
\* The first position of s from i on that holds white space; Len(s) + 1
\* when there is none.
TokenEnd(s, i) ==
    IF i <= Len(s) /\ SubSeq(s, i, i) \notin {" ", "\t", "\r", "\n"}
    THEN TokenEnd(s, i + 1)
    ELSE i

\* fmt.Scanln(&input) (line 195) on standard input s of which the first
\* read characters are consumed: blanks are skipped; at the end of input
\* or on a newline input stays empty; otherwise input is the text up to
\* the next white space, and the characters after it are consumed up to
\* and including the newline or the first character that is not a blank.
\* The error Scanln returns in that last case is dropped by the caller.
Scanln(s, read) ==
    LET a == SkipBlanks(s, read + 1)
        b == TokenEnd(s, a)
        c == SkipBlanks(s, b)
    IN  IF a > Len(s) THEN [input |-> "", read |-> Len(s)]
        ELSE IF SubSeq(s, a, a) = "\n" THEN [input |-> "", read |-> a]
        ELSE [input |-> SubSeq(s, a, b - 1),
              read |-> IF c > Len(s) THEN Len(s) ELSE c]

\* A prompt loop that lets zero through.
AcceptedNonNegative(speed) == ~speed.err /\ speed.val >= 0

\* The prompt loop's test, line 197: err != nil || speed <= 0 rejects.
Accepted(speed) == ~(speed.err \/ speed.val <= 0)

\* The workers of the pool.
Workers == DOMAIN worker

\* env.exit while the process is running.
Running == -1

\* Values of mu.
Unlocked == <<>>
HeldByMain == <<"main">>
HeldBy(w) == <<"worker", w>>

NoItem == [idx |-> 0, domain |-> ""]
NoResp == [err |-> NoError, code |-> 0]
NoResult == [idx |-> 0, Domain |-> "", StatusCode |-> 0, Error |-> NoError]
NoSummary == [Total |-> 0, Successful |-> 0, Failed |-> 0, Green |-> <<>>]

\* A worker that main has not started yet.
Unborn ==
    [pc |-> "unborn", item |-> NoItem, domain |-> "", resp |-> NoResp,
     old |-> <<>>, result |-> NoResult]

\* The environment of a run that has read its domain list from the file
\* and accepted the first speed entered.
StartedEnv(list, speed, network) ==
    [args |-> <<"wolf", "hosts.txt">>,
     file |-> [exists |-> TRUE, lines |-> list], scanned |-> Len(list),
     stdin |-> Digit(speed) \o "\n", read |-> 2, prompts |-> 1,
     network |-> network, exit |-> Running]

\* main, lines 205-207, for a non-empty domain list and an accepted speed.
Init ==
    /\ \E run \in Runs :
          /\ domainsList = run.list
          /\ numWorkers = run.speed
          /\ env = StartedEnv(run.list, run.speed, run.network)
    /\ successfulDomains = <<>>
    /\ processedDomains = 0
    /\ totalDomains = Len(domainsList)
    /\ mu = Unlocked
    /\ domains = <<>>
    /\ domainsClosed = FALSE
    /\ results = <<>>
    /\ resultsClosed = FALSE
    /\ wg = 0
    /\ mainPc = "startWorkers"
    /\ started = 0
    /\ result = NoResult
    /\ percentage = 0
    /\ feederPc = "unborn"
    /\ fed = 0
    /\ closerPc = "unborn"
    /\ worker = [w \in 1..numWorkers |-> Unborn]
    /\ output = <<>>
    /\ summary = NoSummary
    /\ sent = <<>>
    /\ pickups = [i \in 1..Len(domainsList) |-> 0]
    /\ attempts = [i \in 1..Len(domainsList) |-> <<>>]
    /\ deliveries = [i \in 1..Len(domainsList) |-> <<>>]
    /\ closes = [domains |-> 0, results |-> 0]

\* A Lock that never waits.
CanLockAlways == TRUE

\* sync.Mutex: Lock returns only while no task holds the mutex.
CanLock == mu = Unlocked

(* --------------------------- main goroutine --------------------------- *)

\* A start loop that forgets wg.Add(1).
StartWorkerWithoutAdd ==
    /\ mainPc = "startWorkers"
    /\ started < numWorkers
    /\ worker' = [worker EXCEPT ![started + 1].pc = "range"]
    /\ started' = started + 1
    /\ UNCHANGED <<domainsList, numWorkers, successfulDomains,
                   processedDomains, totalDomains, mu, domains,
                   domainsClosed, results, resultsClosed, wg, mainPc,
                   result, percentage, feederPc, fed, closerPc, output,
                   summary, sent, pickups, attempts, deliveries, closes, env>>

\* main, lines 211-214: wg.Add(1); go checker.worker(...)
StartWorker ==
    /\ mainPc = "startWorkers"
    /\ started < numWorkers
    /\ wg' = wg + 1
    /\ worker' = [worker EXCEPT ![started + 1].pc = "range"]
    /\ started' = started + 1
    /\ UNCHANGED <<domainsList, numWorkers, successfulDomains,
                   processedDomains, totalDomains, mu, domains,
                   domainsClosed, results, resultsClosed, mainPc, result,
                   percentage, feederPc, fed, closerPc, output, summary,
                   sent, pickups, attempts, deliveries, closes, env>>

\* main, lines 217-222: the worker start loop is over; go func() { feed }
StartFeeder ==
    /\ mainPc = "startWorkers"
    /\ started >= numWorkers
    /\ feederPc' = "send"
    /\ mainPc' = "startCloser"
    /\ UNCHANGED <<domainsList, numWorkers, successfulDomains,
                   processedDomains, totalDomains, mu, domains,
                   domainsClosed, results, resultsClosed, wg, started,
                   result, percentage, fed, closerPc, worker, output,
                   summary, sent, pickups, attempts, deliveries, closes, env>>

\* main, lines 225-231: go func() { wg.Wait(); close(results) }, then
\* main enters processResults
StartCloser ==
    /\ mainPc = "startCloser"
    /\ closerPc' = "wait"
    /\ mainPc' = "range"
    /\ UNCHANGED <<domainsList, numWorkers, successfulDomains,
                   processedDomains, totalDomains, mu, domains,
                   domainsClosed, results, resultsClosed, wg, started,
                   result, percentage, feederPc, fed, worker, output,
                   summary, sent, pickups, attempts, deliveries, closes, env>>

\* processResults, line 132: one result is received from the channel
ProcessRecv ==
    /\ mainPc = "range"
    /\ CanRecv(results)
    /\ result' = Received(results)
    /\ results' = AfterRecv(results)
    /\ deliveries' = [deliveries EXCEPT ![Received(results).idx] =
                          Append(@, Received(results))]
    /\ mainPc' = "lock"
    /\ UNCHANGED <<domainsList, numWorkers, successfulDomains,
                   processedDomains, totalDomains, mu, domains,
                   domainsClosed, resultsClosed, wg, started, percentage,
                   feederPc, fed, closerPc, worker, output, summary, sent,
                   pickups, attempts, closes, env>>

\* processResults, line 132: the channel is closed and drained, the loop
\* ends and processResults returns to main
ProcessEnd ==
    /\ mainPc = "range"
    /\ RangeEnds(results, resultsClosed)
    /\ mainPc' = "summary"
    /\ UNCHANGED <<domainsList, numWorkers, successfulDomains,
                   processedDomains, totalDomains, mu, domains,
                   domainsClosed, results, resultsClosed, wg, started,
                   result, percentage, feederPc, fed, closerPc, worker,
                   output, summary, sent, pickups, attempts, deliveries,
                   closes, env>>

\* processResults, line 133: sc.mu.Lock()
ProcessLock ==
    /\ mainPc = "lock"
    /\ CanLock
    /\ mu' = HeldByMain
    /\ mainPc' = "count"
    /\ UNCHANGED <<domainsList, numWorkers, successfulDomains,
                   processedDomains, totalDomains, domains, domainsClosed,
                   results, resultsClosed, wg, started, result, percentage,
                   feederPc, fed, closerPc, worker, output, summary, sent,
                   pickups, attempts, deliveries, closes, env>>

\* processResults, lines 134-136: processedDomains++, the percentage,
\* sc.mu.Unlock()
ProcessCount ==
    /\ mainPc = "count"
    /\ processedDomains' = processedDomains + 1
    /\ percentage' = Percentage(processedDomains + 1, totalDomains)
    /\ mu' = Unlocked
    /\ mainPc' = "print"
    /\ UNCHANGED <<domainsList, numWorkers, successfulDomains, totalDomains,
                   domains, domainsClosed, results, resultsClosed, wg,
                   started, result, feederPc, fed, closerPc, worker, output,
                   summary, sent, pickups, attempts, deliveries, closes, env>>

\* processResults, lines 138-145: the line printed for a result
Line(r, pct) ==
    IF r.Error # NoError
    THEN [kind |-> "Failed", Domain |-> r.Domain, code |-> 0,
          percentage |-> pct]
    ELSE [kind |-> "Status", Domain |-> r.Domain, code |-> r.StatusCode,
          percentage |-> pct]

\* processResults, lines 138-146: print the line, go round the loop
ProcessPrint ==
    /\ mainPc = "print"
    /\ output' = Append(output, Line(result, percentage))
    /\ mainPc' = "range"
    /\ UNCHANGED <<domainsList, numWorkers, successfulDomains,
                   processedDomains, totalDomains, mu, domains,
                   domainsClosed, results, resultsClosed, wg, started,
                   result, percentage, feederPc, fed, closerPc, worker,
                   summary, sent, pickups, attempts, deliveries, closes, env>>

\* A summary whose Failed figure counts the failed lines printed.
SummaryCountsFailedLines ==
    /\ mainPc = "summary"
    /\ summary' = [Total |-> Len(domainsList),
                   Successful |-> Len(successfulDomains),
                   Failed |-> Cardinality({k \in 1..Len(output) :
                                             output[k].kind = "Failed"}),
                   Green |-> successfulDomains]
    /\ env' = [env EXCEPT !.exit = 0]
    /\ mainPc' = "done"
    /\ UNCHANGED <<domainsList, numWorkers, successfulDomains,
                   processedDomains, totalDomains, mu, domains,
                   domainsClosed, results, resultsClosed, wg, started,
                   result, percentage, feederPc, fed, closerPc, worker,
                   output, sent, pickups, attempts, deliveries, closes>>

\* main, lines 234-246: the summary block and printGreenDomains; main
\* returns and the process exits with status 0
Summary ==
    /\ mainPc = "summary"
    /\ summary' = [Total |-> Len(domainsList),
                   Successful |-> Len(successfulDomains),
                   Failed |-> Len(domainsList) - Len(successfulDomains),
                   Green |-> successfulDomains]
    /\ env' = [env EXCEPT !.exit = 0]
    /\ mainPc' = "done"
    /\ UNCHANGED <<domainsList, numWorkers, successfulDomains,
                   processedDomains, totalDomains, mu, domains,
                   domainsClosed, results, resultsClosed, wg, started,
                   result, percentage, feederPc, fed, closerPc, worker,
                   output, sent, pickups, attempts, deliveries, closes>>

Main ==
    \/ StartWorker
    \/ StartFeeder
    \/ StartCloser
    \/ ProcessRecv
    \/ ProcessEnd
    \/ ProcessLock
    \/ ProcessCount
    \/ ProcessPrint
    \/ Summary

(* -------------------------- feeder goroutine -------------------------- *)

\* The value the feeder sends for the i-th domain of the list.  idx is the
\* position in the input: it identifies the occurrence and no step of the
\* program reads it.
Item(i) == [idx |-> i, domain |-> domainsList[i]]

\* main, lines 218-220: domains <- domain
FeederSend ==
    /\ feederPc = "send"
    /\ fed < Len(domainsList)
    /\ CanSend(domains)
    /\ domains' = Append(domains, Item(fed + 1))
    /\ fed' = fed + 1
    /\ sent' = Append(sent, Item(fed + 1).domain)
    /\ UNCHANGED <<domainsList, numWorkers, successfulDomains,
                   processedDomains, totalDomains, mu, domainsClosed,
                   results, resultsClosed, wg, mainPc, started, result,
                   percentage, feederPc, closerPc, worker, output, summary,
                   pickups, attempts, deliveries, closes, env>>

\* A feeder that closes the work channel before its loop is over.
FeederCloseEarly ==
    /\ feederPc = "send"
    /\ domainsClosed' = TRUE
    /\ closes' = [closes EXCEPT !.domains = @ + 1]
    /\ feederPc' = "done"
    /\ UNCHANGED <<domainsList, numWorkers, successfulDomains,
                   processedDomains, totalDomains, mu, domains, results,
                   resultsClosed, wg, mainPc, started, result, percentage,
                   fed, closerPc, worker, output, summary, sent, pickups,
                   attempts, deliveries, env>>

\* main, line 221: close(domains)
FeederClose ==
    /\ feederPc = "send"
    /\ fed >= Len(domainsList)
    /\ domainsClosed' = TRUE
    /\ closes' = [closes EXCEPT !.domains = @ + 1]
    /\ feederPc' = "done"
    /\ UNCHANGED <<domainsList, numWorkers, successfulDomains,
                   processedDomains, totalDomains, mu, domains, results,
                   resultsClosed, wg, mainPc, started, result, percentage,
                   fed, closerPc, worker, output, summary, sent, pickups,
                   attempts, deliveries, env>>

Feeder == FeederSend \/ FeederClose

(* -------------------------- closer goroutine -------------------------- *)

\* A closer that does not wait for the workers.
CloserWaitSkipped ==
    /\ closerPc = "wait"
    /\ closerPc' = "close"
    /\ UNCHANGED <<domainsList, numWorkers, successfulDomains,
                   processedDomains, totalDomains, mu, domains,
                   domainsClosed, results, resultsClosed, wg, mainPc,
                   started, result, percentage, feederPc, fed, worker,
                   output, summary, sent, pickups, attempts, deliveries,
                   closes, env>>

\* main, line 226: wg.Wait() returns once the counter is zero
CloserWait ==
    /\ closerPc = "wait"
    /\ wg = 0
    /\ closerPc' = "close"
    /\ UNCHANGED <<domainsList, numWorkers, successfulDomains,
                   processedDomains, totalDomains, mu, domains,
                   domainsClosed, results, resultsClosed, wg, mainPc,
                   started, result, percentage, feederPc, fed, worker,
                   output, summary, sent, pickups, attempts, deliveries,
                   closes, env>>

\* main, line 227: close(results)
CloserClose ==
    /\ closerPc = "close"
    /\ resultsClosed' = TRUE
    /\ closes' = [closes EXCEPT !.results = @ + 1]
    /\ closerPc' = "done"
    /\ UNCHANGED <<domainsList, numWorkers, successfulDomains,
                   processedDomains, totalDomains, mu, domains,
                   domainsClosed, results, wg, mainPc, started, result,
                   percentage, feederPc, fed, worker, output, summary, sent,
                   pickups, attempts, deliveries, env>>

Closer == CloserWait \/ CloserClose

(* -------------------------- worker goroutines ------------------------- *)

\* worker, line 125, and checkDomain, lines 93-97: a domain is received
\* from the work channel, normalised, and the GET is issued
WorkerRecv(w) ==
    /\ worker[w].pc = "range"
    /\ CanRecv(domains)
    /\ LET item == Received(domains)
           url == Normalize(item.domain)
       IN  /\ worker' = [worker EXCEPT ![w].item = item, ![w].domain = url,
                                       ![w].pc = "Get"]
           /\ pickups' = [pickups EXCEPT ![item.idx] = @ + 1]
           /\ attempts' = [attempts EXCEPT ![item.idx] = Append(@, url)]
    /\ domains' = AfterRecv(domains)
    /\ UNCHANGED <<domainsList, numWorkers, successfulDomains,
                   processedDomains, totalDomains, mu, domainsClosed,
                   results, resultsClosed, wg, mainPc, started, result,
                   percentage, feederPc, fed, closerPc, output, summary,
                   sent, deliveries, closes, env>>

\* A worker that returns without wg.Done().
WorkerEndWithoutDone(w) ==
    /\ worker[w].pc = "range"
    /\ RangeEnds(domains, domainsClosed)
    /\ worker' = [worker EXCEPT ![w].pc = "exited"]
    /\ UNCHANGED <<domainsList, numWorkers, successfulDomains,
                   processedDomains, totalDomains, mu, domains,
                   domainsClosed, results, resultsClosed, wg, mainPc,
                   started, result, percentage, feederPc, fed, closerPc,
                   output, summary, sent, pickups, attempts, deliveries,
                   closes, env>>

\* worker, lines 124-125: the work channel is closed and drained, the loop
\* ends, worker returns and its deferred wg.Done() runs
WorkerEnd(w) ==
    /\ worker[w].pc = "range"
    /\ RangeEnds(domains, domainsClosed)
    /\ wg' = wg - 1
    /\ worker' = [worker EXCEPT ![w].pc = "exited"]
    /\ UNCHANGED <<domainsList, numWorkers, successfulDomains,
                   processedDomains, totalDomains, mu, domains,
                   domainsClosed, results, resultsClosed, mainPc, started,
                   result, percentage, feederPc, fed, closerPc, output,
                   summary, sent, pickups, attempts, deliveries, closes, env>>

\* checkDomain, lines 99-103: the Result returned when Get fails
ErrorResult(w, resp) ==
    [idx |-> worker[w].item.idx, Domain |-> worker[w].domain,
     StatusCode |-> 0, Error |-> resp.err]

\* checkDomain, lines 115-119: the Result returned for a response, given
\* the value the local variable domain has by then
StatusResult(w, domain, resp) ==
    [idx |-> worker[w].item.idx, Domain |-> domain,
     StatusCode |-> resp.code, Error |-> NoError]

\* A checkDomain whose failure ends the worker.
AfterGetAbort(resp) ==
    IF resp.err # NoError THEN "exited"
    ELSE IF IsSuccessful(resp.code) THEN "lock"
    ELSE "send"

\* A checkDomain that returns the Result of a successful probe without
\* recording the domain.
AfterGetUnrecorded(resp) == "send"

\* Where checkDomain goes once Get has returned (lines 98 and 108).
AfterGet(resp) ==
    IF resp.err # NoError THEN "send"
    ELSE IF IsSuccessful(resp.code) THEN "lock"
    ELSE "send"

\* A checkDomain that issues the GET again when it fails.
GetReturnsRetry(w) ==
    /\ worker[w].pc = "Get"
    /\ \E resp \in Get(worker[w].domain) :
          IF resp.err # NoError
          THEN /\ attempts' = [attempts EXCEPT ![worker[w].item.idx] =
                                  Append(@, worker[w].domain)]
               /\ worker' = worker
          ELSE /\ attempts' = attempts
               /\ worker' = [worker EXCEPT
                     ![w].resp = resp,
                     ![w].pc = AfterGet(resp),
                     ![w].result =
                         IF AfterGet(resp) = "send"
                         THEN StatusResult(w, worker[w].domain, resp)
                         ELSE @]
    /\ UNCHANGED <<domainsList, numWorkers, successfulDomains,
                   processedDomains, totalDomains, mu, domains,
                   domainsClosed, results, resultsClosed, wg, mainPc,
                   started, result, percentage, feederPc, fed, closerPc,
                   output, summary, sent, pickups, deliveries, closes, env>>

\* checkDomain, lines 97-108 and 115-119: Get returns; the Result is built
\* at once unless the status is in the acceptance window
GetReturns(w) ==
    /\ worker[w].pc = "Get"
    /\ \E resp \in Get(worker[w].domain) :
          worker' = [worker EXCEPT
              ![w].resp = resp,
              ![w].pc = AfterGet(resp),
              ![w].result =
                  IF resp.err # NoError THEN ErrorResult(w, resp)
                  ELSE IF AfterGet(resp) = "send"
                  THEN StatusResult(w, worker[w].domain, resp)
                  ELSE @]
    /\ UNCHANGED <<domainsList, numWorkers, successfulDomains,
                   processedDomains, totalDomains, mu, domains,
                   domainsClosed, results, resultsClosed, wg, mainPc,
                   started, result, percentage, feederPc, fed, closerPc,
                   output, summary, sent, pickups, attempts, deliveries,
                   closes, env>>

\* checkDomain, lines 109-111: sc.mu.Lock(), trim the domain, and read the
\* slice that append is about to extend
WorkerLock(w) ==
    /\ worker[w].pc = "lock"
    /\ CanLock
    /\ mu' = HeldBy(w)
    /\ worker' = [worker EXCEPT
                     ![w].domain = TrimPrefix(@, "https://"),
                     ![w].old = successfulDomains,
                     ![w].pc = "append"]
    /\ UNCHANGED <<domainsList, numWorkers, successfulDomains,
                   processedDomains, totalDomains, domains, domainsClosed,
                   results, resultsClosed, wg, mainPc, started, result,
                   percentage, feederPc, fed, closerPc, output, summary,
                   sent, pickups, attempts, deliveries, closes, env>>

\* A checkDomain that returns with the mutex still locked.
WorkerAppendKeepsLock(w) ==
    /\ worker[w].pc = "append"
    /\ successfulDomains' = Append(worker[w].old, worker[w].domain)
    /\ worker' = [worker EXCEPT
                     ![w].old = <<>>,
                     ![w].result =
                         StatusResult(w, worker[w].domain, worker[w].resp),
                     ![w].pc = "send"]
    /\ UNCHANGED <<domainsList, numWorkers, processedDomains, totalDomains,
                   mu, domains, domainsClosed, results, resultsClosed, wg,
                   mainPc, started, result, percentage, feederPc, fed,
                   closerPc, output, summary, sent, pickups, attempts,
                   deliveries, closes, env>>

\* checkDomain, lines 111-119: the extended slice is stored back,
\* sc.mu.Unlock(), and the Result is returned
WorkerAppend(w) ==
    /\ worker[w].pc = "append"
    /\ successfulDomains' = Append(worker[w].old, worker[w].domain)
    /\ mu' = Unlocked
    /\ worker' = [worker EXCEPT
                     ![w].old = <<>>,
                     ![w].result =
                         StatusResult(w, worker[w].domain, worker[w].resp),
                     ![w].pc = "send"]
    /\ UNCHANGED <<domainsList, numWorkers, processedDomains, totalDomains,
                   domains, domainsClosed, results, resultsClosed, wg,
                   mainPc, started, result, percentage, feederPc, fed,
                   closerPc, output, summary, sent, pickups, attempts,
                   deliveries, closes, env>>

\* A worker that drops its Result when the result channel is full.
WorkerSendOrDrop(w) ==
    /\ worker[w].pc = "send"
    /\ results' = IF CanSend(results) THEN Append(results, worker[w].result)
                  ELSE results
    /\ worker' = [worker EXCEPT ![w].item = NoItem, ![w].domain = "",
                                ![w].resp = NoResp, ![w].result = NoResult,
                                ![w].pc = "range"]
    /\ UNCHANGED <<domainsList, numWorkers, successfulDomains,
                   processedDomains, totalDomains, mu, domains,
                   domainsClosed, resultsClosed, wg, mainPc, started,
                   result, percentage, feederPc, fed, closerPc, output,
                   summary, sent, pickups, attempts, deliveries, closes, env>>

\* worker, line 126: results <- the Result; back to the top of the loop.
\* (Go panics on a send to a closed channel; no worker is ever at this
\* step once results is closed.)
WorkerSend(w) ==
    /\ worker[w].pc = "send"
    /\ CanSend(results)
    /\ results' = Append(results, worker[w].result)
    /\ worker' = [worker EXCEPT ![w].item = NoItem, ![w].domain = "",
                                ![w].resp = NoResp, ![w].result = NoResult,
                                ![w].pc = "range"]
    /\ UNCHANGED <<domainsList, numWorkers, successfulDomains,
                   processedDomains, totalDomains, mu, domains,
                   domainsClosed, resultsClosed, wg, mainPc, started,
                   result, percentage, feederPc, fed, closerPc, output,
                   summary, sent, pickups, attempts, deliveries, closes, env>>

Worker(w) ==
    \/ WorkerRecv(w)
    \/ WorkerEnd(w)
    \/ GetReturns(w)
    \/ WorkerLock(w)
    \/ WorkerAppend(w)
    \/ WorkerSend(w)

(* ------------------------------ startup ------------------------------- *)

\* The process as it is launched: nothing read, nothing constructed.
StartupInit ==
    /\ \E a \in ArgLists, f \in HostFiles, in \in SpeedInputs :
          env = [args |-> a, file |-> f, scanned |-> 0, stdin |-> in,
                 read |-> 0, prompts |-> 0, network |-> ScenarioNetwork,
                 exit |-> Running]
    /\ domainsList = <<>>
    /\ numWorkers = 0
    /\ successfulDomains = <<>>
    /\ processedDomains = 0
    /\ totalDomains = 0
    /\ mu = Unlocked
    /\ domains = <<>>
    /\ domainsClosed = FALSE
    /\ results = <<>>
    /\ resultsClosed = FALSE
    /\ wg = 0
    /\ mainPc = "args"
    /\ started = 0
    /\ result = NoResult
    /\ percentage = 0
    /\ feederPc = "unborn"
    /\ fed = 0
    /\ closerPc = "unborn"
    /\ worker = <<>>
    /\ output = <<>>
    /\ summary = NoSummary
    /\ sent = <<>>
    /\ pickups = <<>>
    /\ attempts = <<>>
    /\ deliveries = <<>>
    /\ closes = [domains |-> 0, results |-> 0]

\* main, lines 158-161: without a file argument, print the usage and exit 1
CheckArgs ==
    /\ mainPc = "args"
    /\ IF Len(env.args) < 2
       THEN /\ env' = [env EXCEPT !.exit = 1]
            /\ mainPc' = "exited"
       ELSE /\ env' = env
            /\ mainPc' = "open"
    /\ UNCHANGED <<domainsList, numWorkers, successfulDomains,
                   processedDomains, totalDomains, mu, domains,
                   domainsClosed, results, resultsClosed, wg, started,
                   result, percentage, feederPc, fed, closerPc, worker,
                   output, summary, sent, pickups, attempts, deliveries,
                   closes>>

\* main, lines 164-169: os.Open; on an error print it and exit 1
OpenFile ==
    /\ mainPc = "open"
    /\ IF ~env.file.exists
       THEN /\ env' = [env EXCEPT !.exit = 1]
            /\ mainPc' = "exited"
       ELSE /\ env' = env
            /\ mainPc' = "scan"
    /\ UNCHANGED <<domainsList, numWorkers, successfulDomains,
                   processedDomains, totalDomains, mu, domains,
                   domainsClosed, results, resultsClosed, wg, started,
                   result, percentage, feederPc, fed, closerPc, worker,
                   output, summary, sent, pickups, attempts, deliveries,
                   closes>>

\* main, lines 173-178: one turn of the scanner loop; the trimmed line is
\* appended unless it is empty
ScanLine ==
    /\ mainPc = "scan"
    /\ env.scanned < Len(env.file.lines)
    /\ LET domain == TrimSpace(env.file.lines[env.scanned + 1])
       IN  domainsList' = IF domain # "" THEN Append(domainsList, domain)
                          ELSE domainsList
    /\ env' = [env EXCEPT !.scanned = @ + 1]
    /\ UNCHANGED <<numWorkers, successfulDomains, processedDomains,
                   totalDomains, mu, domains, domainsClosed, results,
                   resultsClosed, wg, mainPc, started, result, percentage,
                   feederPc, fed, closerPc, worker, output, summary, sent,
                   pickups, attempts, deliveries, closes>>

\* A main that goes on to the prompt with an empty domain list.
ScanDoneUnchecked ==
    /\ mainPc = "scan"
    /\ env.scanned = Len(env.file.lines)
    /\ totalDomains' = Len(domainsList)
    /\ env' = [env EXCEPT !.prompts = 1]
    /\ mainPc' = "readSpeed"
    /\ UNCHANGED <<domainsList, numWorkers, successfulDomains,
                   processedDomains, mu, domains, domainsClosed, results,
                   resultsClosed, wg, started, result, percentage, feederPc,
                   fed, closerPc, worker, output, summary, sent, pickups,
                   attempts, deliveries, closes>>

\* main, lines 180-190: the scanner loop is over; with no domain print the
\* message and exit 1, otherwise print the banner and the first prompt
ScanDone ==
    /\ mainPc = "scan"
    /\ env.scanned = Len(env.file.lines)
    /\ totalDomains' = Len(domainsList)
    /\ IF totalDomains' = 0
       THEN /\ env' = [env EXCEPT !.exit = 1]
            /\ mainPc' = "exited"
       ELSE /\ env' = [env EXCEPT !.prompts = 1]
            /\ mainPc' = "readSpeed"
    /\ UNCHANGED <<domainsList, numWorkers, successfulDomains,
                   processedDomains, mu, domains, domainsClosed, results,
                   resultsClosed, wg, started, result, percentage, feederPc,
                   fed, closerPc, worker, output, summary, sent, pickups,
                   attempts, deliveries, closes>>

\* main, lines 193-201: one turn of the prompt loop
ReadSpeed ==
    /\ mainPc = "readSpeed"
    /\ LET scan == Scanln(env.stdin, env.read)
           speed == Atoi(scan.input)
       IN  IF Accepted(speed)
           THEN /\ numWorkers' = speed.val
                /\ env' = [env EXCEPT !.read = scan.read]
                /\ mainPc' = "new"
           ELSE /\ env.prompts <= MaxPrompts
                /\ numWorkers' = numWorkers
                /\ env' = [env EXCEPT !.read = scan.read,
                                      !.prompts = @ + 1]
                /\ mainPc' = mainPc
    /\ UNCHANGED <<domainsList, successfulDomains, processedDomains,
                   totalDomains, mu, domains, domainsClosed, results,
                   resultsClosed, wg, started, result, percentage, feederPc,
                   fed, closerPc, worker, output, summary, sent, pickups,
                   attempts, deliveries, closes>>

\* main, lines 205-209 and NewStatusChecker, lines 66-88: the checker, the
\* two channels and the wait group
NewChecker ==
    /\ mainPc = "new"
    /\ successfulDomains' = <<>>
    /\ processedDomains' = 0
    /\ mu' = Unlocked
    /\ domains' = <<>>
    /\ results' = <<>>
    /\ wg' = 0
    /\ worker' = [w \in 1..numWorkers |-> Unborn]
    /\ pickups' = [i \in 1..Len(domainsList) |-> 0]
    /\ attempts' = [i \in 1..Len(domainsList) |-> <<>>]
    /\ deliveries' = [i \in 1..Len(domainsList) |-> <<>>]
    /\ mainPc' = "startWorkers"
    /\ UNCHANGED <<domainsList, numWorkers, totalDomains, domainsClosed,
                   resultsClosed, started, result, percentage, feederPc,
                   fed, closerPc, output, summary, sent, closes, env>>

Startup ==
    \/ CheckArgs
    \/ OpenFile
    \/ ScanLine
    \/ ScanDone
    \/ ReadSpeed
    \/ NewChecker

(* --------------------------- specification ---------------------------- *)

Next ==
    \/ Main
    \/ Feeder
    \/ Closer
    \/ \E w \in Workers : Worker(w)

Spec == Init /\ [][Next]_vars

\* The whole process, from its launch.
StartupNext == Startup \/ Next

StartupSpec == StartupInit /\ [][StartupNext]_vars

\* The runs checked for termination: the domain lists that end with the
\* last line of HostFile.
LiveLists ==
    { SubSeq(HostFile, Len(HostFile) - m + 1, Len(HostFile)) :
        m \in 1..(IF MaxDomains < Len(HostFile) THEN MaxDomains
                  ELSE Len(HostFile)) }

LiveInit == Init /\ domainsList \in LiveLists

\* Go schedules every runnable goroutine, and every HTTP call returns
\* within the client timeout.
FairSpec ==
    /\ LiveInit
    /\ [][Next]_vars
    /\ WF_vars(Main)
    /\ WF_vars(Feeder)
    /\ WF_vars(Closer)
    /\ \A w \in 1..MaxWorkers : WF_vars(w \in Workers /\ Worker(w))

(* ------------------------- shared vocabulary -------------------------- *)

\* The number of input domains, M.
M == Len(domainsList)

\* processResults has returned.
ProcessResultsEnded == mainPc \in {"summary", "done"}

\* Every goroutine of the run has finished.
AllTerminated ==
    /\ mainPc = "done"
    /\ feederPc = "done"
    /\ closerPc = "done"
    /\ \A w \in 1..numWorkers : worker[w].pc = "exited"

\* The status window [1, 500] as the specification words it.
InWindow(code) == code \in 1..500

\* A Result that stands for a successful probe.
Qualifies(r) == r.Error = NoError /\ InWindow(r.StatusCode)

\* The Results main has received, over all input positions.
Delivered == UNION { {deliveries[i][k] : k \in 1..Len(deliveries[i])} :
                     i \in 1..M }

\* Number of positions of sequence q holding value v.
Occurrences(q, v) == Cardinality({k \in 1..Len(q) : q[k] = v})

(* -------------------------------- C1 ---------------------------------- *)

\* C1: when processResults ends it has received exactly M results, one per
\* input occurrence, and processedDomains = M; no result is delivered twice
\* at any time.
C1_ExactlyMResults ==
    /\ \A i \in 1..M : Len(deliveries[i]) <= 1
    /\ ProcessResultsEnded =>
          /\ processedDomains = M
          /\ Len(output) = M
          /\ \A i \in 1..M : Len(deliveries[i]) = 1

\* A finished run with more domains than either channel holds and the
\* largest pool.
C1_Witness ==
    /\ ProcessResultsEnded
    /\ M = MaxDomains
    /\ M > bufferSize
    /\ numWorkers = MaxWorkers
    /\ processedDomains = M

(* -------------------------------- C2 ---------------------------------- *)

InCritical ==
    {<<"worker", w>> : w \in {v \in Workers : worker[v].pc = "append"}}
    \cup (IF mainPc = "count" THEN {<<"main">>} ELSE {})

\* C3: at most one task is in a critical section at a time and it holds the
\* mutex; every change of successfulDomains or processedDomains is made by
\* the holder; at the end processedDomains = M and successfulDomains has one
\* entry per result with a status in [1, 500].
C3_NoLostUpdate ==
    /\ [](/\ Cardinality(InCritical) <= 1
          /\ \A t \in InCritical : mu = t
          /\ ProcessResultsEnded =>
                /\ processedDomains = M
                /\ Len(successfulDomains) =
                      Cardinality({i \in 1..M :
                          \E k \in 1..Len(deliveries[i]) :
                              InWindow(deliveries[i][k].StatusCode)}))
    /\ [][/\ successfulDomains' # successfulDomains =>
                \E w \in Workers : mu = HeldBy(w)
          /\ processedDomains' # processedDomains => mu = HeldByMain]_vars

\* A finished run in which two workers appended.
C3_Witness ==
    /\ ProcessResultsEnded
    /\ numWorkers >= 2
    /\ Len(successfulDomains) >= 2
    /\ processedDomains = M

(* -------------------------------- C4 ---------------------------------- *)

\* C4: at the end successfulDomains holds exactly the domains of the results
\* that came back without error and with a status in [1, 500], each as often
\* as there are such results (so one entry per qualifying occurrence).
C4_SuccessfulExactlyQualifying ==
    ProcessResultsEnded =>
        /\ Len(successfulDomains) =
              Cardinality({r \in Delivered : Qualifies(r)})
        /\ \A k \in 1..Len(successfulDomains) :
              Occurrences(successfulDomains, successfulDomains[k]) =
                  Cardinality({r \in Delivered :
                      Qualifies(r) /\ r.Domain = successfulDomains[k]})

\* A finished run where a domain listed twice qualified both times, once
\* with status 500 and once with status 1, and is in the list twice.
C4_Witness ==
    /\ ProcessResultsEnded
    /\ \E i, j \in 1..M :
          /\ i # j
          /\ domainsList[i] = domainsList[j]
          /\ Len(deliveries[i]) = 1 /\ Qualifies(deliveries[i][1])
          /\ Len(deliveries[j]) = 1 /\ Qualifies(deliveries[j][1])
          /\ deliveries[i][1].StatusCode = 500
          /\ deliveries[j][1].StatusCode = 1
          /\ Occurrences(successfulDomains, deliveries[i][1].Domain) = 2

(* -------------------------------- C5 ---------------------------------- *)

\* C5: the percentages printed are non-decreasing whatever the order in
\* which workers finish and the last one is 100.0; processedDomains goes up
\* by exactly one per result, never down and never beyond totalDomains;
\* totalDomains never changes.
C5_ProgressMonotone ==
    /\ [](/\ \A k \in 1..Len(output) :
                k > 1 => output[k - 1].percentage <= output[k].percentage
          /\ processedDomains <= totalDomains
          /\ processedDomains =
                Len(output) + (IF mainPc = "print" THEN 1 ELSE 0)
          /\ ProcessResultsEnded =>
                /\ output # <<>>
                /\ output[Len(output)].percentage = 1000)
    /\ [][/\ processedDomains' \in {processedDomains, processedDomains + 1}
          /\ Len(output') > Len(output) =>
                output'[Len(output')].percentage * totalDomains
                    \in (processedDomains * 1000 - totalDomains)
                        ..(processedDomains * 1000 + totalDomains)
          /\ totalDomains' = totalDomains]_vars

\* A finished run of MaxDomains results whose percentages rose to 100.0.
C5_Witness ==
    /\ ProcessResultsEnded
    /\ M = MaxDomains
    /\ M > 1
    /\ Len(output) = M
    /\ output[1].percentage < output[M].percentage
    /\ output[M].percentage = 1000
    /\ numWorkers = MaxWorkers

(* -------------------------------- C6 ---------------------------------- *)

\* C6: the result channel is closed at most once, by the closer only, and
\* only when all N workers have left their loop with the work channel
\* closed and drained; nothing is sent on it once it is closed; and when the
\* Aggregator sees the close every result has been delivered.
C6_ResultsClosedAfterWorkers ==
    /\ [](/\ closes.results <= 1
          /\ resultsClosed =>
                /\ closes.results = 1
                /\ closerPc = "done"
                /\ started = numWorkers
                /\ \A w \in 1..numWorkers : worker[w].pc = "exited"
                /\ domainsClosed
                /\ domains = <<>>
          /\ ProcessResultsEnded =>
                /\ resultsClosed
                /\ results = <<>>
                /\ \A i \in 1..M : Len(deliveries[i]) = 1)
    /\ [][/\ (resultsClosed' # resultsClosed
                \/ closes'.results # closes.results) =>
                /\ closerPc = "close"
                /\ closerPc' = "done"
          /\ Len(results') > Len(results) => ~resultsClosed]_vars

\* The result channel is closed while results are still buffered in it,
\* with the largest pool.
C6_Witness ==
    /\ resultsClosed
    /\ results # <<>>
    /\ mainPc = "range"
    /\ numWorkers = MaxWorkers

(* -------------------------------- C7 ---------------------------------- *)

\* C7: what the feeder has sent is always a prefix of the domain list (input
\* order, unmodified); it sends only while the work channel has room; it
\* closes the channel at most once and only when the whole list is sent;
\* nothing is sent afterwards; a worker leaves its loop only when the
\* channel is closed and empty.
C7_FeederInOrder ==
    /\ [](/\ Len(sent) <= M
          /\ sent = SubSeq(domainsList, 1, Len(sent))
          /\ Len(domains) <= bufferSize
          /\ closes.domains <= 1
          /\ domainsClosed =>
                /\ closes.domains = 1
                /\ sent = domainsList)
    /\ [][/\ sent' # sent => Len(domains) < bufferSize
          /\ domainsClosed => (domainsClosed' /\ sent' = sent)
          /\ Len(domains') > Len(domains) => ~domainsClosed
          /\ \A w \in Workers :
                (worker[w].pc # "exited" /\ worker'[w].pc = "exited") =>
                    (domainsClosed /\ domains = <<>>)]_vars

\* The work channel is closed with the last domain still buffered in a
\* full channel.
C7_Witness ==
    /\ domainsClosed
    /\ M = MaxDomains
    /\ Len(domains) = bufferSize
    /\ sent = domainsList

(* -------------------------------- C8 ---------------------------------- *)

\* C8: each input occurrence is received by at most one worker, at most
\* once, and at most one GET is issued for it, whatever its outcome; at the
\* end exactly one GET has been issued per occurrence (M in all).
C8_OneProbePerOccurrence ==
    /\ \A i \in 1..M : pickups[i] <= 1 /\ Len(attempts[i]) <= 1
    /\ \A v, w \in Workers :
          (v # w /\ worker[v].item.idx # 0) =>
              worker[v].item.idx # worker[w].item.idx
    /\ ProcessResultsEnded =>
          \A i \in 1..M : pickups[i] = 1 /\ Len(attempts[i]) = 1

\* A finished run of the largest pool in which a probe failed.
C8_Witness ==
    /\ ProcessResultsEnded
    /\ numWorkers = MaxWorkers
    /\ M = MaxDomains
    /\ \E r \in Delivered : r.Error = TransportError
    /\ \A i \in 1..M : Len(attempts[i]) = 1

(* -------------------------------- C9 ---------------------------------- *)

\* The Results in flight: held by a worker about to send, or buffered.
InFlight ==
    {worker[w].result : w \in {v \in Workers : worker[v].pc = "send"}}
    \cup {results[k] : k \in 1..Len(results)}

\* C9: a failed Get yields a Result carrying the error and status 0, leaves
\* successfulDomains alone and takes the worker to the send, after which the
\* worker is back at the top of its loop; successfulDomains only grows for
\* a response without error; a worker leaves its loop only when the work
\* channel is closed and empty.
C9_ErrorsAreData ==
    /\ [](\A r \in InFlight \cup Delivered :
              r.Error # NoError => r.StatusCode = 0)
    /\ [][/\ \A w \in Workers :
                /\ (/\ worker[w].pc = "Get"
                    /\ worker'[w].pc # "Get"
                    /\ worker'[w].resp.err # NoError) =>
                        /\ worker'[w].pc = "send"
                        /\ worker'[w].result.Error = worker'[w].resp.err
                        /\ worker'[w].result.StatusCode = 0
                        /\ successfulDomains' = successfulDomains
                /\ (worker[w].pc = "send" /\ worker'[w].pc # "send") =>
                        /\ worker'[w].pc = "range"
                        /\ results' = Append(results, worker[w].result)
                /\ (worker[w].pc # "exited" /\ worker'[w].pc = "exited") =>
                        /\ worker[w].pc = "range"
                        /\ domainsClosed
                        /\ domains = <<>>
          /\ successfulDomains' # successfulDomains =>
                \E w \in Workers :
                    /\ worker[w].pc = "append"
                    /\ worker[w].resp.err = NoError]_vars

\* A single worker whose first probe failed in transport and whose second
\* probe succeeded: both results were delivered and only the second domain
\* is in successfulDomains.
C9_Witness ==
    /\ numWorkers = 1
    /\ M >= 2
    /\ Len(deliveries[1]) = 1
    /\ deliveries[1][1].Error = TransportError
    /\ deliveries[1][1].StatusCode = 0
    /\ Len(deliveries[2]) = 1
    /\ Qualifies(deliveries[2][1])
    /\ successfulDomains = <<deliveries[2][1].Domain>>

(* -------------------------------- C10 --------------------------------- *)

\* The domain string carries a scheme.
HasScheme(domain) ==
    HasPrefix(domain, "http://") \/ HasPrefix(domain, "https://")

\* C10: every GET issued for an input domain is for the domain itself when
\* it carries a scheme, and for "https://" followed by the domain when it
\* does not, also when the hostname begins with the letters http.
C10_SchemelessGetsHttps ==
    \A i \in 1..M : \A k \in 1..Len(attempts[i]) :
        attempts[i][k] =
            IF HasScheme(domainsList[i]) THEN domainsList[i]
            ELSE "https://" \o domainsList[i]


(* -------------------------------- C11 --------------------------------- *)

\* The Result main received for input position i.
DeliveredAt(i) == deliveries[i][1]

\* The input positions whose probe did not succeed: a transport error, or
\* a status outside [1, 500].
FailedPositions == {i \in 1..M : ~Qualifies(DeliveredAt(i))}

\* The scenario run: good (200), bad (connection error), weird (501) with
\* one worker.
IsScenario ==
    /\ domainsList = ScenarioList
    /\ numWorkers = 1
    /\ env.network = ScenarioNetwork

\* C11: once the summary is printed, Total = M, Successful =
\* len(successfulDomains) and Failed = M - Successful, so that Successful +
\* Failed = Total, and Failed is the number of domains whose probe ended in
\* a transport error or a status outside [1, 500]; the scenario run has 3
\* results, successfulDomains = [good.example], Successful 1 and Failed 2.
C11_SummaryCounts ==
    mainPc = "done" =>
        /\ summary.Total = M
        /\ summary.Successful = Len(successfulDomains)
        /\ summary.Failed = M - summary.Successful
        /\ summary.Successful + summary.Failed = summary.Total
        /\ summary.Failed = Cardinality(FailedPositions)
        /\ \A i \in 1..M :
              (DeliveredAt(i).Error # NoError
               \/ DeliveredAt(i).StatusCode > 500) => i \in FailedPositions
        /\ IsScenario =>
              /\ processedDomains = 3
              /\ \A i \in 1..3 : Len(deliveries[i]) = 1
              /\ successfulDomains = <<"good.example">>
              /\ summary = [Total |-> 3, Successful |-> 1, Failed |-> 2,
                            Green |-> <<"good.example">>]

\* The scenario run has printed its summary: one transport error and one
\* status 501 among the three results.
C11_Witness ==
    /\ mainPc = "done"
    /\ IsScenario
    /\ DeliveredAt(2).Error = TransportError
    /\ DeliveredAt(3).StatusCode = 501
    /\ summary.Failed = 2

(* -------------------------------- C12 --------------------------------- *)

\* A line of the host file that holds nothing but white space.
BlankLine(line) ==
    \A i \in 1..Len(line) : SubSeq(line, i, i) \in {" ", "\t", "\r"}

\* The launch is a usage error: no file argument, a file that cannot be
\* opened, or a file without a single non-blank line.
UsageError ==
    \/ Len(env.args) < 2
    \/ ~env.file.exists
    \/ \A k \in 1..Len(env.file.lines) : BlankLine(env.file.lines[k])

\* C12: on a usage error the process never prompts for the scan speed,
\* never reads standard input, never starts a worker, the feeder or the
\* closer, produces no result and no output line, keeps going until it
\* exits, and exits with status 1.
C12_UsageErrorsFatal ==
    UsageError =>
        /\ mainPc \in {"args", "open", "scan", "exited"}
        /\ env.prompts = 0
        /\ env.read = 0
        /\ started = 0
        /\ Workers = {}
        /\ feederPc = "unborn"
        /\ closerPc = "unborn"
        /\ fed = 0
        /\ domains = <<>>
        /\ results = <<>>
        /\ processedDomains = 0
        /\ output = <<>>
        /\ summary = NoSummary
        /\ env.exit = (IF mainPc = "exited" THEN 1 ELSE Running)
        /\ mainPc # "exited" => ENABLED Startup

\* A file of three blank lines has been scanned to its end and the process
\* has exited.
C12_Witness ==
    /\ Len(env.args) = 2
    /\ env.file.exists
    /\ Len(env.file.lines) = 3
    /\ env.scanned = 3
    /\ domainsList = <<>>
    /\ mainPc = "exited"
    /\ env.exit = 1

(* -------------------------------- C13 --------------------------------- *)

\* The positive integer an entry at the prompt denotes, 0 when it denotes
\* none (written out entry by entry, not computed by Atoi).
PositiveValue(in) ==
    CASE in = "1" -> 1
      [] in = "2" -> 2
      [] in = "+2" -> 2
      [] in = "3" -> 3
      [] in = "03" -> 3
      [] in = "5" -> 5
      [] in = "7" -> 7
      [] OTHER -> 0

\* The positions of the newlines of standard input.
Newlines == {k \in 1..Len(env.stdin) : SubSeq(env.stdin, k, k) = "\n"}

\* The line of standard input that position k lies on, without its
\* newline: what the operator typed as one entry.
LineAt(k) ==
    LET from == CHOOSE a \in 1..k :
                    /\ a - 1 \in Newlines \cup {0}
                    /\ \A b \in a..(k - 1) : b \notin Newlines
        to == CHOOSE z \in k..Len(env.stdin) :
                    /\ z \in Newlines
                    /\ \A b \in k..(z - 1) : b \notin Newlines
    IN  SubSeq(env.stdin, from, to - 1)

\* The entries the prompt loop has gone past: the lines whose newline is
\* consumed.
EntriesRead == {LineAt(k) : k \in {n \in Newlines : n <= env.read}}

\* main has left the prompt loop with an accepted scan speed.
SpeedAccepted ==
    mainPc \notin {"args", "open", "scan", "readSpeed", "exited"}

\* The workers main has started.
Born == {w \in Workers : worker[w].pc # "unborn"}

\* C13: while the prompt loop runs, no entry read so far is a positive
\* integer and nothing is started; the loop ends on an entry that is a
\* positive integer, numWorkers is its value, and the start loop starts
\* exactly that many workers.  For the entries -3, abc, 5: two rejections
\* and 5 workers.
C13_PromptLoop ==
    /\ mainPc = "readSpeed" =>
          /\ \A e \in EntriesRead : PositiveValue(e) = 0
          /\ env.prompts >= 1
          /\ numWorkers = 0
          /\ started = 0
          /\ Workers = {}
          /\ feederPc = "unborn"
          /\ closerPc = "unborn"
    /\ SpeedAccepted =>
          /\ env.read >= 1
          /\ PositiveValue(LineAt(env.read)) > 0
          /\ numWorkers = PositiveValue(LineAt(env.read))
          /\ mainPc # "new" => Workers = 1..numWorkers
          /\ Born = 1..started
          /\ started <= numWorkers
          /\ mainPc \notin {"new", "startWorkers"} => started = numWorkers
          /\ env.stdin = "-3\nabc\n5\n" =>
                /\ env.prompts = 3
                /\ numWorkers = 5

(* -------------------------------- C14 --------------------------------- *)

\* The workers holding a domain: picked up, its Result not yet sent.
Holding == {w \in Workers : worker[w].pc \in {"Get", "lock", "append", "send"}}

\* The Results main has received so far.
ReceivedByMain ==
    Cardinality({i \in 1..M : deliveries[i] # <<>>})

\* The channels are within their capacity, a worker holds at most one
\* domain, and full channels block the senders.
Backpressure ==
    /\ Len(domains) <= bufferSize
    /\ Len(results) <= bufferSize
    /\ \A w \in Workers :
          worker[w].pc \notin {"Get", "lock", "append", "send"} =>
              worker[w].item = NoItem
    /\ fed - ReceivedByMain <= 2 * bufferSize + numWorkers
    /\ Len(results) = bufferSize =>
          \A w \in Workers : worker[w].pc = "send" => ~ENABLED WorkerSend(w)
    /\ (Len(domains) = bufferSize /\ feederPc = "send") => ~ENABLED FeederSend

\* C14: each channel buffers at most bufferSize values and each worker
\* holds at most one domain or Result; the domains that
\* have left the feeder and have not been received by processResults
\* number at most 2 * bufferSize + numWorkers; with the result channel
\* full no worker can send, and with the work channel full the feeder
\* cannot send.
C14_Backpressure == []Backpressure

\* Both channels are full, the worker is blocked on its send, the feeder
\* is blocked with domains left, and 2 * bufferSize + numWorkers domains
\* are in flight.
C14_Witness ==
    /\ M > 2 * bufferSize + numWorkers
    /\ fed - ReceivedByMain = 2 * bufferSize + numWorkers
    /\ fed < M
    /\ feederPc = "send"
    /\ Len(domains) = bufferSize
    /\ Len(results) = bufferSize
    /\ \A w \in Workers : worker[w].pc = "send"


(* -------------------------------- C15 --------------------------------- *)

\* P holds of every Result that has left checkDomain: waiting to be
\* sent, in the result channel, or received by main.
EveryResultOut(P(_)) ==
    /\ \A w \in Workers : worker[w].pc = "send" => P(worker[w].result)
    /\ \A k \in 1..Len(results) : P(results[k])
    /\ \A i \in 1..M : deliveries[i] # <<>> => P(deliveries[i][1])

\* The name under which a successful probe of a host file entry is
\* recorded, entry by entry: a leading "https://" is dropped, anything
\* else stays as it is.
RecordedName(entry) ==
    CASE entry = "https://b.io" -> "b.io"
      [] entry = "http://c.io" -> "http://c.io"
      [] OTHER -> entry

\* The domain of a Result of a successful probe carries no scheme; that
\* of a probe that ended in an error or in a status outside the window is
\* in the form in which it was requested.
WithoutSchemeOnSuccess(r) ==
    IF Qualifies(r) THEN ~HasScheme(r.Domain)
    ELSE r.Domain = Normalize(domainsList[r.idx])

\* The domain of a Result of a successful probe is the entry's recorded
\* name, and successfulDomains lists it; that of a probe that ended in an
\* error or in a status outside the window is in the form in which it was
\* requested.
AsRecordedOnSuccess(r) ==
    IF Qualifies(r)
    THEN /\ r.Domain = RecordedName(domainsList[r.idx])
         /\ \E k \in 1..Len(successfulDomains) :
               successfulDomains[k] = r.Domain
    ELSE r.Domain = Normalize(domainsList[r.idx])

\* C15 as stated: the domain of every Result with a status in [1, 500],
\* and every entry of successfulDomains, carries no scheme, whichever form
\* the input had; Results of failed probes keep the normalized form.
C15_SchemeStrippedOnSuccess ==
    /\ EveryResultOut(WithoutSchemeOnSuccess)
    /\ \A k \in 1..Len(successfulDomains) : ~HasScheme(successfulDomains[k])

\* Every Result out of checkDomain and every entry of successfulDomains
\* is as the entry-by-entry table says.
HttpsStrippedOnSuccess ==
    /\ EveryResultOut(AsRecordedOnSuccess)
    /\ \A k \in 1..Len(successfulDomains) :
          \E i \in 1..M : successfulDomains[k] = RecordedName(domainsList[i])

\* C15 amended: on success only a leading "https://" is removed, so a
\* bare hostname and an https:// URL are recorded as the bare hostname and
\* an http:// URL is recorded unchanged, in the Result and in
\* successfulDomains alike; Results of failed probes keep the normalized
\* form.
C15_HttpsStrippedOnSuccess == []HttpsStrippedOnSuccess

\* The https:// entry was recorded without its scheme and the http://
\* entry with it; both Results have reached main.
C15_Witness ==
    /\ domainsList = <<"https://b.io", "http://c.io">>
    /\ Delivered = {[idx |-> 1, Domain |-> "b.io", StatusCode |-> 500,
                     Error |-> NoError],
                    [idx |-> 2, Domain |-> "http://c.io", StatusCode |-> 1,
                     Error |-> NoError]}
    /\ Occurrences(successfulDomains, "b.io") = 1
    /\ Occurrences(successfulDomains, "http://c.io") = 1

(* -------------------------------- C16 --------------------------------- *)

\* The lines printed so far in the failed (gray, "000 Failed") form.
FailedLines == {k \in 1..Len(output) : output[k].kind = "Failed"}

\* C16: a line is printed in the success form exactly when its status is
\* in [1, 500] and its domain is in successfulDomains, in the failed form
\* otherwise, and once the summary is printed the number of failed lines
\* is the summary's Failed count.
C16_RenderingAgreesWithCounting ==
    /\ \A k \in 1..Len(output) :
          output[k].kind = "Status" <=>
              /\ InWindow(output[k].code)
              /\ Occurrences(successfulDomains, output[k].Domain) >= 1
    /\ mainPc = "done" => Cardinality(FailedLines) = summary.Failed

(* -------------------------------- C17 --------------------------------- *)

\* 1 while main holds a Result it has received and not yet counted.
ReceivedUncounted == IF mainPc \in {"lock", "count"} THEN 1 ELSE 0

\* The number of places input position i is at: still with the feeder, in
\* the work channel, held by a worker, in the result channel, or received
\* by main.
PlacesOf(i) ==
    (IF i > fed THEN 1 ELSE 0)
    + Cardinality({k \in 1..Len(domains) : domains[k].idx = i})
    + Cardinality({w \in Holding : worker[w].item.idx = i})
    + Cardinality({k \in 1..Len(results) : results[k].idx = i})
    + Len(deliveries[i])

\* C17: the domains not yet sent by the feeder, those in the work channel,
\* those held by workers, the Results in the result channel, the Result
\* received and not yet counted and processedDomains add up to M, and each
\* input position is at exactly one of these places.
C17_Conservation ==
    /\ (M - fed) + Len(domains) + Cardinality(Holding) + Len(results)
       + ReceivedUncounted + processedDomains = M
    /\ \A i \in 1..M : PlacesOf(i) = 1

\* Every place holds a domain at once.
C17_Witness ==
    /\ M - fed >= 1
    /\ Len(domains) >= 1
    /\ Cardinality(Holding) >= 1
    /\ Len(results) >= 1
    /\ ReceivedUncounted = 1
    /\ processedDomains >= 1

(* -------------------------------- C18 --------------------------------- *)

\* The Results of successful probes of domain d that have left
\* checkDomain: waiting to be sent, in the result channel, or received by
\* main.
QualifyingOut(d) ==
    Cardinality({w \in Workers : /\ worker[w].pc = "send"
                                 /\ Qualifies(worker[w].result)
                                 /\ worker[w].result.Domain = d})
    + Cardinality({k \in 1..Len(results) : /\ Qualifies(results[k])
                                           /\ results[k].Domain = d})
    + Cardinality({i \in 1..M : /\ deliveries[i] # <<>>
                                /\ Qualifies(deliveries[i][1])
                                /\ deliveries[i][1].Domain = d})

\* The Results of successful probes main has received.
QualifyingReceived ==
    {i \in 1..M : deliveries[i] # <<>> /\ Qualifies(deliveries[i][1])}

\* successfulDomains is ahead of the Results of successful probes.
AppendBeforeEmit ==
    /\ \A d \in {RecordedName(domainsList[i]) : i \in 1..M} :
          QualifyingOut(d) <= Occurrences(successfulDomains, d)
    /\ \A r \in InFlight :
          Qualifies(r) => Occurrences(successfulDomains, r.Domain) >= 1
    /\ Cardinality(QualifyingReceived) <= Len(successfulDomains)
    /\ (mainPc \in {"lock", "count", "print"} /\ Qualifies(result)) =>
          Occurrences(successfulDomains, result.Domain) >= 1

\* C18: a Result with a status in [1, 500] leaves checkDomain only after
\* its domain was appended: successfulDomains lists each domain at least
\* as often as Results of successful probes for it are waiting to be sent,
\* in the result channel or received by main, so the Results of
\* successful probes main has received never outnumber successfulDomains.
C18_AppendBeforeEmit == []AppendBeforeEmit

\* main holds the Result of a successful probe while the Result of
\* another one is still in the result channel.
C18_Witness ==
    /\ mainPc = "lock"
    /\ Qualifies(result)
    /\ Occurrences(successfulDomains, result.Domain) >= 1
    /\ \E k \in 1..Len(results) : Qualifies(results[k])
    /\ Len(successfulDomains) = 2

(* -------------------------------- C19 --------------------------------- *)

\* C19: once processResults has returned, every worker has been started
\* and has exited, the mutex is free, no worker can take a step any more,
\* the feeder is done, and the list the summary printed without the mutex
\* is successfulDomains as it still stands.
C19_SummaryReadsQuiescent ==
    ProcessResultsEnded =>
        /\ started = numWorkers
        /\ \A w \in Workers : worker[w].pc = "exited"
        /\ \A w \in Workers : ~ENABLED Worker(w)
        /\ mu = Unlocked
        /\ feederPc = "done"
        /\ domains = <<>>
        /\ results = <<>>
        /\ mainPc = "done" =>
              /\ summary.Green = successfulDomains
              /\ summary.Successful = Len(successfulDomains)

\* main is about to print the summary of a run in which both workers
\* appended a domain.
C19_Witness ==
    /\ mainPc = "summary"
    /\ numWorkers = 2
    /\ Len(successfulDomains) = 2
    /\ \A w \in Workers : worker[w].pc = "exited"
    /\ \E i, j \in 1..M : i # j /\ attempts[i] # <<>> /\ attempts[j] # <<>>

(* -------------------------------- C20 --------------------------------- *)

\* The feeder is blocked on its send to the work channel.
FeederBlocked == feederPc = "send" /\ fed < M /\ ~CanSend(domains)

\* Worker w is blocked on a channel: receiving from the work channel or
\* sending to the result channel.
WorkerBlocked(w) ==
    \/ worker[w].pc = "range" /\ ~CanRecv(domains) /\ ~domainsClosed
    \/ worker[w].pc = "send" /\ ~CanSend(results)

\* main is blocked receiving from the result channel.
MainBlocked == mainPc = "range" /\ ~CanRecv(results) /\ ~resultsClosed

\* The holder of the mutex is between its Lock and its Unlock, where
\* nothing blocks, and its releasing step is enabled.
HolderReleases ==
    \/ mu = Unlocked
    \/ mu = HeldByMain /\ mainPc = "count" /\ ENABLED ProcessCount
    \/ \E w \in Workers :
          mu = HeldBy(w) /\ worker[w].pc = "append" /\ ENABLED WorkerAppend(w)

\* No task holds the mutex while it is blocked on a channel or while its
\* HTTP call is under way.
NoneBlockedHolding ==
    /\ MainBlocked => mu # HeldByMain
    /\ \A w \in Workers :
          (WorkerBlocked(w) \/ worker[w].pc = "Get") => mu # HeldBy(w)

\* C20 as stated: the lock discipline, and the mutex is free whenever any
\* task is blocked on a channel.
C20_MutexFreeWhenBlocked ==
    /\ HolderReleases
    /\ NoneBlockedHolding
    /\ (FeederBlocked \/ MainBlocked \/ \E w \in Workers : WorkerBlocked(w))
          => mu = Unlocked

\* The mutex is held only inside the two critical sections.
LockDiscipline ==
    /\ HolderReleases
    /\ NoneBlockedHolding

\* C20 amended: the lock discipline holds; a task blocked on a channel or
\* in its HTTP call never holds the mutex itself, and whoever holds the
\* mutex can release it at once, so a task waiting for the mutex is never
\* waiting for a blocked task.
C20_LockDiscipline == []LockDiscipline

\* A worker holds the mutex while main waits for it and the feeder is
\* blocked on the full work channel.
C20_Witness ==
    /\ \E w \in Workers : mu = HeldBy(w)
    /\ mainPc = "lock"
    /\ FeederBlocked

====
